---- MODULE Spec2Model ----
(***************************************************************************)
(* Smart positioning engine of getboundingrect-react                       *)
(* (src/src/hooks/useSmartPosition.ts): strategy chain, correction         *)
(* pipeline, arrow offset and the top-level calculateSmartPosition.        *)
(*                                                                         *)
(* Numbers.  The code computes with JavaScript numbers and halves widths   *)
(* and heights (width / 2).  Every number of the model is an integer count *)
(* of HALF PIXELS, so that halving a whole number of pixels is exact:      *)
(* Px(n) is n pixels, Half(v) is v / 2.  All inputs are whole pixels.      *)
(***************************************************************************)
EXTENDS Integers, Sequences, FiniteSets, TLC

VARIABLES
    window,     \* the host's viewport: [innerWidth, innerHeight]
    call,       \* the arguments of the call: targetRect, tooltipWidth, tooltipHeight, gap, options
    pc,         \* "ready": call not yet run; "done": calculateSmartPosition returned;
                \* "handling": a candidate is being passed through handlers one by one
    candidate,  \* the PositionOutput handed to the correction pipeline
    handled,    \* the PositionOutput after the handlers applied so far
    applied,    \* the handlers applied so far, in order
    result,     \* the SmartPositionResult returned
    earlier,    \* a session's record of one earlier call: its arguments, the
                \* window it ran in and what it returned (NoCall: none)
    site,       \* per call site, the invocation in progress: where it stands,
                \* its arguments, its input and its loop index
    slots,      \* the storage of the invocations' `result` variable
    ret,        \* per call site, the SmartPositionResult last returned to it
    presets,    \* the module's preset arrays, shared by all invocations
    provider,   \* PerformanceProvider: its counter refs, its metrics state and
                \* the state updaters React has queued
    element,    \* useElementPosition: the measured element, the effect's
                \* listeners and throttle timers, the position state
    lazy,       \* useLazyLoad: hasLoaded, the observer and what it observes
    memo        \* useSmartPosition: the dependencies and value useMemo holds

engineVars == <<window, call, pc, candidate, handled, applied, result, earlier>>

siteVars == <<site, slots, ret, presets>>

hookVars == <<provider, element, lazy, memo>>

vars == <<engineVars, siteVars, hookVars>>

----------------------------------------------------------------------------
(* Numbers *)

Px(n) == 2 * n
Half(v) == v \div 2
Max(a, b) == IF a >= b THEN a ELSE b
Min(a, b) == IF a <= b THEN a ELSE b
Abs(v) == IF v < 0 THEN -v ELSE v

(* Program constants, in pixels *)
DEFAULT_GAP == 8
VIEWPORT_PADDING == 8
ARROW_PADDING == 20
safeTop == 50
safeBottom == 34

Sides == {"top", "bottom", "left", "right"}

(* A strategy's null, and the result before the call returns *)
NULL == [position |-> "null", x |-> 0, y |-> 0]
NoResult == [position |-> "null", x |-> 0, y |-> 0, arrowOffset |-> 0]
NoCall == [made |-> FALSE]

----------------------------------------------------------------------------
(* Strategies *)

bottomFirstStrategy(input) ==
    LET spaceBelow == input.viewport.height - input.targetRect.bottom
    IN  IF spaceBelow >= input.tooltipHeight + input.gap
        THEN [position |-> "bottom",
              x |-> input.targetRect.left + Half(input.targetRect.width) - Half(input.tooltipWidth),
              y |-> input.targetRect.bottom + input.gap]
        ELSE NULL

topFirstStrategy(input) ==
    LET spaceAbove == input.targetRect.top
    IN  IF spaceAbove >= input.tooltipHeight + input.gap
        THEN [position |-> "top",
              x |-> input.targetRect.left + Half(input.targetRect.width) - Half(input.tooltipWidth),
              y |-> input.targetRect.top - input.tooltipHeight - input.gap]
        ELSE NULL

(* Variant: an exact fit on the right is refused *)
rightFirstStrategy_Strict(input) ==
    LET spaceRight == input.viewport.width - input.targetRect.right
    IN  IF spaceRight > input.tooltipWidth + input.gap
        THEN [position |-> "right",
              x |-> input.targetRect.right + input.gap,
              y |-> input.targetRect.top + Half(input.targetRect.height) - Half(input.tooltipHeight)]
        ELSE NULL

rightFirstStrategy(input) ==
    LET spaceRight == input.viewport.width - input.targetRect.right
    IN  IF spaceRight >= input.tooltipWidth + input.gap
        THEN [position |-> "right",
              x |-> input.targetRect.right + input.gap,
              y |-> input.targetRect.top + Half(input.targetRect.height) - Half(input.tooltipHeight)]
        ELSE NULL

leftFirstStrategy(input) ==
    LET spaceLeft == input.targetRect.left
    IN  IF spaceLeft >= input.tooltipWidth + input.gap
        THEN [position |-> "left",
              x |-> input.targetRect.left - input.tooltipWidth - input.gap,
              y |-> input.targetRect.top + Half(input.targetRect.height) - Half(input.tooltipHeight)]
        ELSE NULL

(* Variant: the pointer strategy gives up when the tooltip would leave the viewport *)
followMouseStrategy_IfInside(mouseX, mouseY, input) ==
    IF /\ mouseX + input.gap + input.tooltipWidth <= input.viewport.width
       /\ mouseY + input.gap + input.tooltipHeight <= input.viewport.height
    THEN [position |-> "bottom", x |-> mouseX + input.gap, y |-> mouseY + input.gap]
    ELSE NULL

followMouseStrategy(mouseX, mouseY, input) ==
    [position |-> "bottom", x |-> mouseX + input.gap, y |-> mouseY + input.gap]

fixedPositionStrategy(fixedX, fixedY, fixedPosition, input) ==
    [position |-> fixedPosition, x |-> fixedX, y |-> fixedY]

(* A strategy value is a record naming the function and, for the two
   curried strategies, the arguments it was built with. *)
BottomFirst == [kind |-> "bottomFirst"]
TopFirst == [kind |-> "topFirst"]
RightFirst == [kind |-> "rightFirst"]
LeftFirst == [kind |-> "leftFirst"]

ApplyStrategy(strategy, input) ==
    CASE strategy.kind = "bottomFirst" -> bottomFirstStrategy(input)
      [] strategy.kind = "topFirst" -> topFirstStrategy(input)
      [] strategy.kind = "rightFirst" -> rightFirstStrategy(input)
      [] strategy.kind = "leftFirst" -> leftFirstStrategy(input)
      [] strategy.kind = "followMouse" ->
            followMouseStrategy(strategy.mouseX, strategy.mouseY, input)
      [] strategy.kind = "fixed" ->
            fixedPositionStrategy(strategy.fixedX, strategy.fixedY, strategy.fixedPosition, input)

(* Variant: the default list with its first two entries swapped *)
defaultStrategies_TopFirst == <<TopFirst, BottomFirst, RightFirst, LeftFirst>>

defaultStrategies == <<BottomFirst, TopFirst, RightFirst, LeftFirst>>

topPreferredStrategies == <<TopFirst, BottomFirst, LeftFirst, RightFirst>>

horizontalStrategies == <<RightFirst, LeftFirst, BottomFirst, TopFirst>>

----------------------------------------------------------------------------
(* Handlers *)

(* Variant: the upper bounds forget the padding *)
viewportBoundaryHandler_NoPadding(res, context) ==
    LET x == IF res.x < Px(VIEWPORT_PADDING)
             THEN Px(VIEWPORT_PADDING)
             ELSE IF res.x + context.tooltipWidth > context.viewport.width
                  THEN context.viewport.width - context.tooltipWidth
                  ELSE res.x
        y == IF res.y < Px(VIEWPORT_PADDING)
             THEN Px(VIEWPORT_PADDING)
             ELSE IF res.y + context.tooltipHeight > context.viewport.height
                  THEN context.viewport.height - context.tooltipHeight
                  ELSE res.y
    IN  [res EXCEPT !.x = x, !.y = y]

(* Variant: the lower bounds clamp to the viewport's edge, not to the padding *)
viewportBoundaryHandler_ZeroFloor(res, context) ==
    LET x == IF res.x < Px(VIEWPORT_PADDING)
             THEN 0
             ELSE IF res.x + context.tooltipWidth > context.viewport.width - Px(VIEWPORT_PADDING)
                  THEN context.viewport.width - context.tooltipWidth - Px(VIEWPORT_PADDING)
                  ELSE res.x
        y == IF res.y < Px(VIEWPORT_PADDING)
             THEN 0
             ELSE IF res.y + context.tooltipHeight > context.viewport.height - Px(VIEWPORT_PADDING)
                  THEN context.viewport.height - context.tooltipHeight - Px(VIEWPORT_PADDING)
                  ELSE res.y
    IN  [res EXCEPT !.x = x, !.y = y]

(* Variant: the padding is kept twice, 16 px from every edge *)
viewportBoundaryHandler_DoublePadding(res, context) ==
    LET x == IF res.x < 2 * Px(VIEWPORT_PADDING)
             THEN 2 * Px(VIEWPORT_PADDING)
             ELSE IF res.x + context.tooltipWidth >
                        context.viewport.width - 2 * Px(VIEWPORT_PADDING)
                  THEN context.viewport.width - context.tooltipWidth - 2 * Px(VIEWPORT_PADDING)
                  ELSE res.x
        y == IF res.y < 2 * Px(VIEWPORT_PADDING)
             THEN 2 * Px(VIEWPORT_PADDING)
             ELSE IF res.y + context.tooltipHeight >
                        context.viewport.height - 2 * Px(VIEWPORT_PADDING)
                  THEN context.viewport.height - context.tooltipHeight - 2 * Px(VIEWPORT_PADDING)
                  ELSE res.y
    IN  [res EXCEPT !.x = x, !.y = y]

(* Variant: a tooltip pushed up from the bottom edge is flipped above the target *)
viewportBoundaryHandler_Flip(res, context) ==
    LET x == IF res.x < Px(VIEWPORT_PADDING)
             THEN Px(VIEWPORT_PADDING)
             ELSE IF res.x + context.tooltipWidth > context.viewport.width - Px(VIEWPORT_PADDING)
                  THEN context.viewport.width - context.tooltipWidth - Px(VIEWPORT_PADDING)
                  ELSE res.x
        overflowsBelow ==
            /\ res.y >= Px(VIEWPORT_PADDING)
            /\ res.y + context.tooltipHeight > context.viewport.height - Px(VIEWPORT_PADDING)
        y == IF res.y < Px(VIEWPORT_PADDING)
             THEN Px(VIEWPORT_PADDING)
             ELSE IF overflowsBelow
                  THEN context.viewport.height - context.tooltipHeight - Px(VIEWPORT_PADDING)
                  ELSE res.y
    IN  [position |-> IF overflowsBelow /\ res.position = "bottom" THEN "top" ELSE res.position,
         x |-> x, y |-> y]

viewportBoundaryHandler(res, context) ==
    LET x == IF res.x < Px(VIEWPORT_PADDING)
             THEN Px(VIEWPORT_PADDING)
             ELSE IF res.x + context.tooltipWidth > context.viewport.width - Px(VIEWPORT_PADDING)
                  THEN context.viewport.width - context.tooltipWidth - Px(VIEWPORT_PADDING)
                  ELSE res.x
        y == IF res.y < Px(VIEWPORT_PADDING)
             THEN Px(VIEWPORT_PADDING)
             ELSE IF res.y + context.tooltipHeight > context.viewport.height - Px(VIEWPORT_PADDING)
                  THEN context.viewport.height - context.tooltipHeight - Px(VIEWPORT_PADDING)
                  ELSE res.y
    IN  [res EXCEPT !.x = x, !.y = y]

(* Variant: the handler keeps the tooltip inside a container as high as the
   viewport and 100 px narrower *)
scrollContainerHandler_Clamp(res, context) ==
    LET right == context.viewport.width - Px(100)
    IN  IF res.x + context.tooltipWidth > right
        THEN [res EXCEPT !.x = right - context.tooltipWidth]
        ELSE res

scrollContainerHandler(res, context) == res

(* Variant: only the top of the safe area is kept clear *)
safeAreaHandler_TopOnly(res, context) ==
    LET y == IF res.y < Px(safeTop) THEN Px(safeTop) ELSE res.y
    IN  [res EXCEPT !.y = y]

(* Variant: the bottom bound forgets the tooltip's height *)
safeAreaHandler_NoHeight(res, context) ==
    LET y == IF res.y < Px(safeTop)
             THEN Px(safeTop)
             ELSE IF res.y > context.viewport.height - Px(safeBottom)
                  THEN context.viewport.height - Px(safeBottom)
                  ELSE res.y
    IN  [res EXCEPT !.y = y]

safeAreaHandler(res, context) ==
    LET y == IF res.y < Px(safeTop)
             THEN Px(safeTop)
             ELSE IF res.y + context.tooltipHeight > context.viewport.height - Px(safeBottom)
                  THEN context.viewport.height - context.tooltipHeight - Px(safeBottom)
                  ELSE res.y
    IN  [res EXCEPT !.y = y]

ApplyHandler(handler, res, context) ==
    CASE handler = "viewportBoundary" -> viewportBoundaryHandler(res, context)
      [] handler = "scrollContainer" -> scrollContainerHandler(res, context)
      [] handler = "safeArea" -> safeAreaHandler(res, context)

defaultHandlers == <<"viewportBoundary">>

mobileHandlers == <<"viewportBoundary", "safeArea">>

fullHandlers == <<"viewportBoundary", "scrollContainer", "safeArea">>

----------------------------------------------------------------------------
(* Arrow offset *)

(* Variant: the offset is returned without being clamped *)
calculateArrowOffset_Unclamped(res, targetRect, tooltipWidth, tooltipHeight) ==
    IF res.position = "top" \/ res.position = "bottom"
    THEN targetRect.left + Half(targetRect.width) - res.x - Half(tooltipWidth)
    ELSE targetRect.top + Half(targetRect.height) - res.y - Half(tooltipHeight)

calculateArrowOffset(res, targetRect, tooltipWidth, tooltipHeight) ==
    IF res.position = "top" \/ res.position = "bottom"
    THEN LET centerX == targetRect.left + Half(targetRect.width)
             arrowOffset == centerX - res.x - Half(tooltipWidth)
         IN  Max(-Half(tooltipWidth) + Px(ARROW_PADDING),
                 Min(Half(tooltipWidth) - Px(ARROW_PADDING), arrowOffset))
    ELSE LET centerY == targetRect.top + Half(targetRect.height)
             arrowOffset == centerY - res.y - Half(tooltipHeight)
         IN  Max(-Half(tooltipHeight) + Px(ARROW_PADDING),
                 Min(Half(tooltipHeight) - Px(ARROW_PADDING), arrowOffset))

----------------------------------------------------------------------------
(* The core engine *)

(* const viewport = { width: window.innerWidth, height: window.innerHeight };
   const input = { targetRect, tooltipWidth, tooltipHeight, gap, viewport } *)
MakeInput(c, win) ==
    [targetRect |-> c.targetRect,
     tooltipWidth |-> c.tooltipWidth,
     tooltipHeight |-> c.tooltipHeight,
     gap |-> c.gap,
     viewport |-> [width |-> win.innerWidth, height |-> win.innerHeight]]

(* Variant: the loop without its break, so the last fitting strategy wins *)
RECURSIVE TryStrategies_NoBreak(_, _)
TryStrategies_NoBreak(strategies, input) ==
    IF strategies = <<>>
    THEN NULL
    ELSE LET later == TryStrategies_NoBreak(Tail(strategies), input)
         IN  IF later # NULL THEN later ELSE ApplyStrategy(Head(strategies), input)

(* for (const strategy of strategies) { result = strategy(input); if (result) break; } *)
RECURSIVE TryStrategies(_, _)
TryStrategies(strategies, input) ==
    IF strategies = <<>>
    THEN NULL
    ELSE LET r == ApplyStrategy(Head(strategies), input)
         IN  IF r # NULL THEN r ELSE TryStrategies(Tail(strategies), input)

(* Variant: the fallback anchored to the target's top edge instead of its bottom *)
SelectCandidate_TopFallback(strategies, input) ==
    LET r == TryStrategies(strategies, input)
    IN  IF r = NULL
        THEN [position |-> "bottom",
              x |-> input.targetRect.left + Half(input.targetRect.width) - Half(input.tooltipWidth),
              y |-> input.targetRect.top + input.gap]
        ELSE r

(* Variant: no fallback, the loop's result is used as it is *)
SelectCandidate_NoFallback(strategies, input) == TryStrategies(strategies, input)

(* if (!result) { result = { position: "bottom", ... } } *)
SelectCandidate(strategies, input) ==
    LET r == TryStrategies(strategies, input)
    IN  IF r = NULL
        THEN [position |-> "bottom",
              x |-> input.targetRect.left + Half(input.targetRect.width) - Half(input.tooltipWidth),
              y |-> input.targetRect.bottom + input.gap]
        ELSE r

(* for (const handler of handlers) { result = handler(result, input); } *)
RECURSIVE RunHandlers(_, _, _)
RunHandlers(handlers, res, input) ==
    IF handlers = <<>>
    THEN res
    ELSE RunHandlers(Tail(handlers), ApplyHandler(Head(handlers), res, input), input)

(* Variant: a strategy list passed once becomes the default of later calls *)
StrategiesOf_Sticky(options) ==
    IF "strategies" \in DOMAIN options
    THEN options.strategies
    ELSE IF earlier # NoCall /\ "strategies" \in DOMAIN earlier.call.options
         THEN earlier.call.options.strategies
         ELSE defaultStrategies

(* const { strategies = defaultStrategies, handlers = defaultHandlers } = options;
   a field the caller leaves out takes its default. *)
StrategiesOf(options) ==
    IF "strategies" \in DOMAIN options THEN options.strategies ELSE defaultStrategies

HandlersOf(options) ==
    IF "handlers" \in DOMAIN options THEN options.handlers ELSE defaultHandlers

(* const arrowOffset = calculateArrowOffset(...);
   return { position: result.position, x: result.x, y: result.y, arrowOffset }; *)
ReturnValue(res, targetRect, tooltipWidth, tooltipHeight) ==
    [position |-> res.position, x |-> res.x, y |-> res.y,
     arrowOffset |-> calculateArrowOffset(res, targetRect, tooltipWidth, tooltipHeight)]

calculateSmartPosition(targetRect, tooltipWidth, tooltipHeight, gap, options, win) ==
    LET input == MakeInput([targetRect |-> targetRect, tooltipWidth |-> tooltipWidth,
                            tooltipHeight |-> tooltipHeight, gap |-> gap], win)
    IN  ReturnValue(RunHandlers(HandlersOf(options),
                                SelectCandidate(StrategiesOf(options), input), input),
                    targetRect, tooltipWidth, tooltipHeight)

----------------------------------------------------------------------------
(* Inputs of the model, in pixels *)

MaxShift == 1
MaxApplied == 2

Shifts == 0 .. MaxShift

(* The target's left and top: near the viewport's origin, one pixel short of
   the left/top fit threshold of the large tooltip, far right/bottom, and
   (top only) scrolled above the viewport; each shifted by 0..MaxShift. *)
Lefts == {b + s : b \in {10, 207, 880}, s \in Shifts}
Tops == {b + s : b \in {-30, 10, 107, 680}, s \in Shifts}
Widths == {20, 100}
Heights == {20}
TooltipWidths == {30, 200}
TooltipHeights == {30, 100}
Gaps == {0, DEFAULT_GAP}
InnerWidths == {50, 204, 1000}
InnerHeights == {50, 104, 800}

(* A DOMRect as getBoundingClientRect returns it: right = left + width,
   bottom = top + height. *)
Rect(left, top, width, height) ==
    [top |-> Px(top), left |-> Px(left), bottom |-> Px(top + height),
     right |-> Px(left + width), width |-> Px(width), height |-> Px(height)]

TargetRects == {Rect(l, t, w, h) : l \in Lefts, t \in Tops, w \in Widths, h \in Heights}

Windows == {[innerWidth |-> Px(w), innerHeight |-> Px(h)] : w \in InnerWidths, h \in InnerHeights}

StrategyLists == {defaultStrategies, topPreferredStrategies, horizontalStrategies, <<>>}

HandlerLists == {defaultHandlers, mobileHandlers, fullHandlers, <<>>}

Handlers == {"viewportBoundary", "scrollContainer", "safeArea"}

(* The options of a call: both lists given, or one of them left out *)
OptionSets ==
    [strategies : StrategyLists, handlers : HandlerLists]
        \cup {[strategies |-> horizontalStrategies], [handlers |-> mobileHandlers]}

Calls ==
    [targetRect : TargetRects,
     tooltipWidth : {Px(w) : w \in TooltipWidths},
     tooltipHeight : {Px(h) : h \in TooltipHeights},
     gap : {Px(g) : g \in Gaps},
     options : OptionSets]

(* Candidates handed to a handler on its own: below, at and above each clamp
   bound that the tooltip and viewport sizes above produce. *)
CandidateXs == {b + s : b \in {-40, 7, 12, 792}, s \in Shifts}
CandidateYs == {b + s : b \in {-40, 7, 49, 592, 666}, s \in Shifts}

FixedStrategies ==
    {[kind |-> "fixed", fixedX |-> Px(fx), fixedY |-> Px(fy), fixedPosition |-> side] :
        fx \in CandidateXs, fy \in CandidateYs, side \in Sides}

HandlerCalls ==
    [targetRect : {Rect(10, 10, 100, 20)},
     tooltipWidth : {Px(w) : w \in TooltipWidths},
     tooltipHeight : {Px(h) : h \in TooltipHeights},
     gap : {Px(DEFAULT_GAP)},
     options : [strategies : {<<f>> : f \in FixedStrategies}, handlers : {<<>>}]]

----------------------------------------------------------------------------
(* The module's exports and the hooks that call calculateSmartPosition *)

(* positionStrategies.presets and positionHandlers.presets *)
StrategyPresets ==
    [default |-> defaultStrategies,
     topPreferred |-> topPreferredStrategies,
     horizontal |-> horizontalStrategies]

HandlerPresets ==
    [default |-> defaultHandlers, mobile |-> mobileHandlers, full |-> fullHandlers]

Presets == [strategies |-> StrategyPresets, handlers |-> HandlerPresets]

(* The two hooks, each a call site *)
Sites == {"useSmartPosition", "useAdvancedSmartPosition"}

IdleFrame == [pc |-> "idle", call |-> NoCall, input |-> NoCall, idx |-> 0]

(* Variant: `result` hoisted out of the function, one variable for all calls *)
Slot_Shared(s) == "useSmartPosition"

(* let result: PositionOutput | null = null, declared in the function body:
   each invocation has a variable of its own *)
Slot(s) == s

(* The other hooks and the provider, not mounted *)
ProviderIdle == [mounted |-> FALSE]
ElementIdle == [mounted |-> FALSE]
LazyIdle == [mounted |-> FALSE]
MemoIdle == [mounted |-> FALSE]

HooksIdle ==
    /\ provider = ProviderIdle
    /\ element = ElementIdle
    /\ lazy = LazyIdle
    /\ memo = MemoIdle

(* The placement engine at rest, in a window of 1000 x 800 *)
EngineIdle ==
    /\ window = [innerWidth |-> Px(1000), innerHeight |-> Px(800)]
    /\ call = NoCall
    /\ pc = "idle"
    /\ candidate = NULL
    /\ handled = NULL
    /\ applied = <<>>
    /\ result = NoResult
    /\ earlier = NoCall

(* No hook has called yet *)
SitesIdle ==
    /\ site = [s \in Sites |-> IdleFrame]
    /\ slots = [s \in Sites |-> NULL]
    /\ ret = [s \in Sites |-> NoResult]
    /\ presets = Presets

----------------------------------------------------------------------------
(* Spec: one call of calculateSmartPosition on inputs drawn by Init *)

(* Variant: the viewport is read on the first call and kept *)
Input_Cached == MakeInput(call, IF earlier = NoCall THEN window ELSE earlier.window)

Input == MakeInput(call, window)

Init ==
    /\ window \in Windows
    /\ call \in Calls
    /\ pc = "ready"
    /\ candidate = NULL
    /\ handled = NULL
    /\ applied = <<>>
    /\ result = NoResult
    /\ earlier = NoCall
    /\ SitesIdle
    /\ HooksIdle

Call ==
    /\ pc = "ready"
    /\ candidate' = SelectCandidate(StrategiesOf(call.options), Input)
    /\ handled' = RunHandlers(HandlersOf(call.options), candidate', Input)
    /\ applied' = HandlersOf(call.options)
    /\ result' = ReturnValue(handled', call.targetRect, call.tooltipWidth, call.tooltipHeight)
    /\ pc' = "done"
    /\ UNCHANGED <<window, call, earlier, siteVars, hookVars>>

Next == Call

Spec == Init /\ [][Next]_vars

----------------------------------------------------------------------------
(* SpecHandler: a candidate passed through handlers one at a time *)

InitHandler ==
    /\ window \in Windows
    /\ call \in HandlerCalls
    /\ pc = "handling"
    /\ candidate = SelectCandidate(StrategiesOf(call.options), Input)
    /\ handled = candidate
    /\ applied = <<>>
    /\ result = NoResult
    /\ earlier = NoCall
    /\ SitesIdle
    /\ HooksIdle

Handle(handler) ==
    /\ pc = "handling"
    /\ Len(applied) < MaxApplied
    /\ handled' = ApplyHandler(handler, handled, Input)
    /\ applied' = Append(applied, handler)
    /\ UNCHANGED <<window, call, pc, candidate, result, earlier, siteVars, hookVars>>

NextHandler == \E handler \in Handlers : Handle(handler)

SpecHandler == InitHandler /\ [][NextHandler]_vars

----------------------------------------------------------------------------
(* SpecPreset: a call whose options are looked up by preset name *)

(* Names a caller may ask for; the last of each is not a preset *)
StrategyNames == {"default", "topPreferred", "horizontal", "vertical"}
HandlerNames == {"default", "mobile", "full", "desktop"}

(* { strategies: positionStrategies.presets[s], handlers:
   positionHandlers.presets[h] }: reading a missing property yields
   undefined, and a field holding undefined is a field left out. *)
OptionsByName(requested) ==
    LET s == requested.strategies
        h == requested.handlers
    IN  IF s \in DOMAIN StrategyPresets
        THEN IF h \in DOMAIN HandlerPresets
             THEN [strategies |-> StrategyPresets[s], handlers |-> HandlerPresets[h]]
             ELSE [strategies |-> StrategyPresets[s]]
        ELSE IF h \in DOMAIN HandlerPresets
             THEN [handlers |-> HandlerPresets[h]]
             ELSE [unset |-> TRUE]   \* {}: neither option is set

PresetCalls ==
    {[targetRect |-> t, tooltipWidth |-> Px(w), tooltipHeight |-> Px(h),
      gap |-> Px(DEFAULT_GAP), options |-> OptionsByName(r), requested |-> r] :
        t \in {Rect(10, 10, 100, 20), Rect(880, 680, 100, 20)},
        w \in TooltipWidths, h \in TooltipHeights,
        r \in [strategies : StrategyNames, handlers : HandlerNames]}

InitPreset ==
    /\ window \in Windows
    /\ call \in PresetCalls
    /\ pc = "ready"
    /\ candidate = NULL
    /\ handled = NULL
    /\ applied = <<>>
    /\ result = NoResult
    /\ earlier = NoCall
    /\ SitesIdle
    /\ HooksIdle

SpecPreset == InitPreset /\ [][Next]_vars

----------------------------------------------------------------------------
(* SpecSession: calls of calculateSmartPosition one after another, with the
   window resized in between.  A call runs to completion, so a resize falls
   between two calls. *)

SessionRects == {Rect(10, 10, 100, 20), Rect(207, 107, 100, 20), Rect(880, 680, 100, 20)}

SessionOptions ==
    {[strategies |-> defaultStrategies, handlers |-> defaultHandlers],
     [strategies |-> horizontalStrategies, handlers |-> mobileHandlers],
     [handlers |-> fullHandlers]}

SessionCalls ==
    [targetRect : SessionRects,
     tooltipWidth : {Px(w) : w \in TooltipWidths},
     tooltipHeight : {Px(100)},
     gap : {Px(DEFAULT_GAP)},
     options : SessionOptions]

InitSession ==
    /\ window \in Windows
    /\ call \in SessionCalls
    /\ pc = "ready"
    /\ candidate = NULL
    /\ handled = NULL
    /\ applied = <<>>
    /\ result = NoResult
    /\ earlier = NoCall
    /\ SitesIdle
    /\ HooksIdle

(* The host resizes the window *)
Resize(win) ==
    /\ pc = "ready"
    /\ win # window
    /\ window' = win
    /\ UNCHANGED <<call, pc, candidate, handled, applied, result, earlier, siteVars, hookVars>>

(* The next call is issued; the session may keep the finished one on record *)
Request(c, keep) ==
    /\ pc = "done"
    /\ call' = c
    /\ pc' = "ready"
    /\ candidate' = NULL
    /\ handled' = NULL
    /\ applied' = <<>>
    /\ result' = NoResult
    /\ earlier' = IF keep
                  THEN [call |-> call, window |-> window, result |-> result]
                  ELSE earlier
    /\ UNCHANGED <<window, siteVars, hookVars>>

NextSession ==
    \/ Call
    \/ \E win \in Windows : Resize(win)
    \/ \E c \in SessionCalls, keep \in BOOLEAN : Request(c, keep)

SpecSession == InitSession /\ [][NextSession]_vars

----------------------------------------------------------------------------
(* SpecStrategy: a call whose strategy list is one directional strategy, or
   starts with a followMouse or fixed strategy; with no handlers, so that
   the candidate is what the call returns, or with the default handlers. *)

(* Targets whose right edge, and targets whose bottom edge, leaves exactly,
   or one pixel less than, tooltipWidth + gap (tooltipHeight + gap) in the
   largest window *)
EdgeRects ==
    {Rect(692 + s, 10, 100, 20) : s \in Shifts} \cup
    {Rect(10, 672 + s, 100, 20) : s \in Shifts}

StrategyRects == TargetRects \cup EdgeRects

DirectionalLists == {<<BottomFirst>>, <<TopFirst>>, <<RightFirst>>, <<LeftFirst>>}

MouseStrategies ==
    {[kind |-> "followMouse", mouseX |-> Px(p[1]), mouseY |-> Px(p[2])] :
        p \in {<<5, 5>>, <<990, 790>>}}

LeadStrategies ==
    MouseStrategies \cup
    {[kind |-> "fixed", fixedX |-> Px(p[1]), fixedY |-> Px(p[2]), fixedPosition |-> p[3]] :
        p \in {<<-40, -40, "top">>, <<500, 300, "left">>,
               <<500, 300, "right">>, <<-40, 300, "bottom">>}}

LedLists == {<<f>> \o tail : f \in LeadStrategies, tail \in {<<>>, defaultStrategies}}

StrategyCalls ==
    [targetRect : StrategyRects,
     tooltipWidth : {Px(w) : w \in TooltipWidths},
     tooltipHeight : {Px(h) : h \in TooltipHeights},
     gap : {Px(g) : g \in Gaps},
     options : [strategies : DirectionalLists \cup LedLists,
                handlers : {<<>>, defaultHandlers}]]

InitStrategy ==
    /\ window \in Windows
    /\ call \in StrategyCalls
    /\ pc = "ready"
    /\ candidate = NULL
    /\ handled = NULL
    /\ applied = <<>>
    /\ result = NoResult
    /\ earlier = NoCall
    /\ SitesIdle
    /\ HooksIdle

SpecStrategy == InitStrategy /\ [][Next]_vars

----------------------------------------------------------------------------
(* SpecSites: the two hooks call calculateSmartPosition and the invocations
   advance statement by statement in any interleaving.  An invocation's
   options name the preset arrays it was handed, which it reads from the
   module's shared arrays at every loop iteration. *)

(* useSmartPosition passes no options; useAdvancedSmartPosition passes its own *)
SiteOptions(s) ==
    IF s = "useSmartPosition"
    THEN {[strategies |-> "default", handlers |-> "default"]}
    ELSE {[strategies |-> "horizontal", handlers |-> "mobile"],
          [strategies |-> "topPreferred", handlers |-> "full"]}

SiteCalls(s) ==
    [targetRect : SessionRects,
     tooltipWidth : {Px(w) : w \in TooltipWidths},
     tooltipHeight : {Px(100)},
     gap : {Px(DEFAULT_GAP)},
     options : SiteOptions(s)]

StrategiesAt(f) == presets.strategies[f.call.options.strategies]
HandlersAt(f) == presets.handlers[f.call.options.handlers]

InitSites ==
    /\ window \in Windows
    /\ call = NoCall
    /\ pc = "sites"
    /\ candidate = NULL
    /\ handled = NULL
    /\ applied = <<>>
    /\ result = NoResult
    /\ earlier = NoCall
    /\ SitesIdle
    /\ HooksIdle

(* The hook calls: lines 321-338, up to `let result = null` *)
Enter(s, c) ==
    /\ pc = "sites"
    /\ site[s].pc \in {"idle", "done"}
    /\ site' = [site EXCEPT ![s] = [pc |-> "strategies", call |-> c,
                                    input |-> MakeInput(c, window), idx |-> 1]]
    /\ slots' = [slots EXCEPT ![Slot(s)] = NULL]
    /\ ret' = [ret EXCEPT ![s] = NoResult]
    /\ UNCHANGED <<window, call, pc, candidate, handled, applied, result, earlier, presets, hookVars>>

(* One iteration of the strategy loop, or its end *)
TryStrategy(s) ==
    LET f == site[s]
        list == StrategiesAt(f)
    IN  /\ f.pc = "strategies"
        /\ IF f.idx > Len(list)
           THEN /\ site' = [site EXCEPT ![s].pc = "fallback"]
                /\ UNCHANGED slots
           ELSE LET r == ApplyStrategy(list[f.idx], f.input)
                IN  /\ slots' = [slots EXCEPT ![Slot(s)] = r]
                    /\ site' = IF r # NULL
                               THEN [site EXCEPT ![s].pc = "fallback"]
                               ELSE [site EXCEPT ![s].idx = f.idx + 1]
        /\ UNCHANGED <<window, call, pc, candidate, handled, applied, result, earlier,
                       ret, presets, hookVars>>

(* if (!result) { result = { position: "bottom", ... } } *)
Fallback(s) ==
    LET f == site[s]
    IN  /\ f.pc = "fallback"
        /\ slots' = IF slots[Slot(s)] = NULL
                    THEN [slots EXCEPT ![Slot(s)] = SelectCandidate(<<>>, f.input)]
                    ELSE slots
        /\ site' = [site EXCEPT ![s].pc = "handlers", ![s].idx = 1]
        /\ UNCHANGED <<window, call, pc, candidate, handled, applied, result, earlier,
                       ret, presets, hookVars>>

(* One iteration of the handler loop, or its end *)
RunHandler(s) ==
    LET f == site[s]
        list == HandlersAt(f)
    IN  /\ f.pc = "handlers"
        /\ IF f.idx > Len(list)
           THEN /\ site' = [site EXCEPT ![s].pc = "arrow"]
                /\ UNCHANGED slots
           ELSE /\ slots' = [slots EXCEPT
                               ![Slot(s)] = ApplyHandler(list[f.idx], slots[Slot(s)], f.input)]
                /\ site' = [site EXCEPT ![s].idx = f.idx + 1]
        /\ UNCHANGED <<window, call, pc, candidate, handled, applied, result, earlier,
                       ret, presets, hookVars>>

(* The arrow offset and the return *)
Return(s) ==
    LET f == site[s]
    IN  /\ f.pc = "arrow"
        /\ ret' = [ret EXCEPT ![s] = ReturnValue(slots[Slot(s)], f.call.targetRect,
                                                 f.call.tooltipWidth, f.call.tooltipHeight)]
        /\ site' = [site EXCEPT ![s].pc = "done"]
        /\ UNCHANGED <<window, call, pc, candidate, handled, applied, result, earlier,
                       slots, presets, hookVars>>

NextSites ==
    \E s \in Sites :
        \/ \E c \in SiteCalls(s) : Enter(s, c)
        \/ TryStrategy(s)
        \/ Fallback(s)
        \/ RunHandler(s)
        \/ Return(s)

SpecSites == InitSites /\ [][NextSites]_vars

----------------------------------------------------------------------------
(* SpecProvider: PerformanceProvider's counters.  The three increment
   functions bump a ref; the interval callback hands React a state updater
   that reads the refs when React runs it, then resets the refs.  React
   runs an updater either at once, while setMetrics is being called (when
   nothing is queued for the component), or later, when it renders. *)

Counters == {"rectCalls", "ioCallbacks", "scrollEvents"}

(* How often a counter is bumped within one second *)
Counts == 0 .. 2

Zero == [k \in Counters |-> 0]

(* What the updater returns: the refs as they are when it runs *)
UpdatedMetrics(refs) ==
    [rectCallsPerSecond |-> refs.rectCalls,
     ioCallbacksPerSecond |-> refs.ioCallbacks,
     scrollEventsPerSecond |-> refs.scrollEvents]

InitProvider ==
    /\ EngineIdle
    /\ SitesIdle
    /\ element = ElementIdle
    /\ lazy = LazyIdle
    /\ memo = MemoIdle
    /\ provider = [mounted |-> TRUE,
                   refs |-> Zero,             \* rectCallsRef, ioCallbacksRef, scrollEventsRef
                   metrics |-> UpdatedMetrics(Zero),
                   queue |-> <<>>,            \* updaters not yet run, each with the
                                              \* counts of the second it was made for
                   counted |-> Zero,          \* the counts of the second last published
                   published |-> FALSE]

(* incrementRectCalls / incrementIOCallbacks / incrementScrollEvents *)
Increment(k) ==
    /\ provider.mounted
    /\ provider.refs[k] + 1 \in Counts
    /\ provider' = [provider EXCEPT !.refs[k] = @ + 1]
    /\ UNCHANGED <<engineVars, siteVars, element, lazy, memo>>

(* The interval callback: setMetrics(updater), then the three resets *)
Tick(eager) ==
    /\ provider.mounted
    /\ eager => provider.queue = <<>>
    /\ ~eager => Len(provider.queue) < 1
    /\ provider' =
          IF eager
          THEN [provider EXCEPT !.metrics = UpdatedMetrics(provider.refs),
                                !.counted = provider.refs,
                                !.published = TRUE,
                                !.refs = Zero]
          ELSE [provider EXCEPT !.queue = Append(@, provider.refs),
                                !.refs = Zero]
    /\ UNCHANGED <<engineVars, siteVars, element, lazy, memo>>

(* React renders and runs the oldest queued updater *)
RunUpdater ==
    /\ provider.mounted
    /\ provider.queue # <<>>
    /\ provider' = [provider EXCEPT !.metrics = UpdatedMetrics(provider.refs),
                                    !.counted = Head(provider.queue),
                                    !.published = TRUE,
                                    !.queue = Tail(@)]
    /\ UNCHANGED <<engineVars, siteVars, element, lazy, memo>>

NextProvider ==
    \/ \E k \in Counters : Increment(k)
    \/ \E eager \in BOOLEAN : Tick(eager)
    \/ RunUpdater

SpecProvider == InitProvider /\ [][NextProvider]_vars

----------------------------------------------------------------------------
(* SpecElement: useElementPosition.  Every run of the effect is a
   generation; it registers the current throttledUpdatePosition (a function
   identified by a number; a new one is made when enableThrottle or the
   update callback changes, the same one is kept when only enablePassive
   changes) for scroll and resize and calls it once.  A throttled function
   (lodash throttle, leading and trailing) invokes at once when its timer is
   not running and otherwise leaves one trailing invocation pending until
   the timer fires. *)

MaxGen == 3
Gens == 1 .. MaxGen

(* Rectangles getBoundingClientRect may report: above, across the top edge,
   inside, across the bottom edge, at and below the bottom edge; inside,
   left of and right of the viewport *)
ElementRects ==
    {Rect(l, t, 100, 20) : l \in {-100, 10, 1000}, t \in {-40, -10, 10, 790, 800, 810}}

ElementWindows ==
    {[innerWidth |-> Px(1000), innerHeight |-> Px(800)],
     [innerWidth |-> Px(50), innerHeight |-> Px(50)]}

NoPosition == [status |-> "null"]

(* Variant: an element starting exactly at the bottom edge counts as in the viewport *)
updatePosition_Inclusive(rect, win) ==
    LET isInViewport ==
            /\ rect.top <= win.innerHeight
            /\ rect.bottom > 0
            /\ rect.left <= win.innerWidth
            /\ rect.right > 0
        isFullyVisible ==
            /\ rect.top >= 0
            /\ rect.bottom <= win.innerHeight
            /\ rect.left >= 0
            /\ rect.right <= win.innerWidth
        status ==
            IF isFullyVisible THEN "fullyVisible"
            ELSE IF isInViewport THEN "partiallyVisible"
            ELSE IF rect.top < 0 THEN "scrolledAbove"
            ELSE IF rect.top > win.innerHeight THEN "below"
            ELSE "invisible"
    IN  [rect |-> rect, isInViewport |-> isInViewport,
         isFullyVisible |-> isFullyVisible, status |-> status]

(* The value updatePosition hands to setPosition *)
updatePosition(rect, win) ==
    LET isInViewport ==
            /\ rect.top < win.innerHeight
            /\ rect.bottom > 0
            /\ rect.left < win.innerWidth
            /\ rect.right > 0
        isFullyVisible ==
            /\ rect.top >= 0
            /\ rect.bottom <= win.innerHeight
            /\ rect.left >= 0
            /\ rect.right <= win.innerWidth
        status ==
            IF isFullyVisible THEN "fullyVisible"
            ELSE IF isInViewport THEN "partiallyVisible"
            ELSE IF rect.top < 0 THEN "scrolledAbove"
            ELSE IF rect.top > win.innerHeight THEN "below"
            ELSE "invisible"
    IN  [rect |-> rect, isInViewport |-> isInViewport,
         isFullyVisible |-> isFullyVisible, status |-> status]

IdleTimer == [armed |-> FALSE, pending |-> FALSE, by |-> 0]

(* Variant: cleanup leaves the throttled function's timer alone *)
CancelThrottle_Keep(timer) == timer

(* throttledUpdatePosition.cancel() *)
CancelThrottle(timer) == IdleTimer

(* updatePosition runs on behalf of generation g: nothing without an element *)
Invoke(e, g, win) ==
    IF e.mounted
    THEN [e EXCEPT !.position = updatePosition(e.rect, win), !.updatedBy = g, !.flip = ~@]
    ELSE e

(* throttledUpdatePosition() is called by generation g *)
CallUpdate(e, g, win) ==
    IF ~e.throttled[e.fn]
    THEN Invoke(e, g, win)
    ELSE IF ~e.timers[e.fn].armed
         THEN [Invoke(e, g, win) EXCEPT
                  !.timers[e.fn] = [armed |-> TRUE, pending |-> FALSE, by |-> g]]
         ELSE [e EXCEPT !.timers[e.fn].pending = TRUE, !.timers[e.fn].by = g]

(* The effect of generation g: the first call, then addEventListener twice *)
RunEffect(e, g, win) ==
    [CallUpdate(e, g, win) EXCEPT
        !.gen = g,
        !.scroll = @ \cup {[fn |-> e.fn, gen |-> g]},
        !.resize = @ \cup {[fn |-> e.fn, gen |-> g]}]

(* The cleanup of the running effect: removeEventListener twice, then cancel *)
Cleanup(e) ==
    [e EXCEPT
        !.scroll = {r \in @ : r.fn # e.fn},
        !.resize = {r \in @ : r.fn # e.fn},
        !.timers[e.fn] = IF e.throttled[e.fn] THEN CancelThrottle(@) ELSE @,
        !.cleaned = @ \cup {e.gen},
        !.dropped = @ \/ (e.throttled[e.fn] /\ e.timers[e.fn].pending)]

InitElement ==
    /\ EngineIdle
    /\ SitesIdle
    /\ provider = ProviderIdle
    /\ lazy = LazyIdle
    /\ memo = MemoIdle
    /\ \E throttle \in BOOLEAN, rect \in ElementRects :
          element = RunEffect([mounted |-> TRUE,
                               gen |-> 0,          \* the running effect
                               fn |-> 1,           \* the current throttledUpdatePosition
                               throttled |-> [f \in Gens |-> throttle],
                               timers |-> [f \in Gens |-> IdleTimer],
                               scroll |-> {},      \* registered scroll listeners
                               resize |-> {},      \* registered resize listeners
                               rect |-> rect,      \* what getBoundingClientRect reports
                               position |-> NoPosition,
                               updatedBy |-> 0,    \* the generation of the last setPosition
                               flip |-> FALSE,     \* flips at every setPosition
                               cleaned |-> {},     \* generations whose cleanup ran
                               dropped |-> FALSE], \* a cleanup cancelled a pending call
                              1, window)

(* The page scrolls: the element moves and the scroll listeners are called *)
ScrollEvent(rect) ==
    /\ element.mounted
    /\ rect # element.rect
    /\ LET moved == [element EXCEPT !.rect = rect]
       IN  element' = IF moved.scroll = {}
                      THEN moved
                      ELSE CallUpdate(moved, (CHOOSE r \in moved.scroll : TRUE).gen, window)
    /\ UNCHANGED <<engineVars, siteVars, provider, lazy, memo>>

(* The window is resized and the resize listeners are called *)
ResizeEvent(win) ==
    /\ element.mounted
    /\ win # window
    /\ window' = win
    /\ element' = IF element.resize = {}
                  THEN element
                  ELSE CallUpdate(element, (CHOOSE r \in element.resize : TRUE).gen, win)
    /\ UNCHANGED <<call, pc, candidate, handled, applied, result, earlier,
                   siteVars, provider, lazy, memo>>

(* The timer of a throttled function fires: the trailing invocation, if any *)
TimerFires(f) ==
    /\ element.throttled[f]
    /\ element.timers[f].armed
    /\ element' = IF element.timers[f].pending
                  THEN [Invoke(element, element.timers[f].by, window) EXCEPT
                           !.timers[f] = IdleTimer]
                  ELSE [element EXCEPT !.timers[f] = IdleTimer]
    /\ UNCHANGED <<engineVars, siteVars, provider, lazy, memo>>

(* A render with changed settings: "passive" keeps the function, "throttle"
   and "callback" make a new one; the old effect is cleaned up and the new
   one runs *)
Rerender(change) ==
    /\ element.mounted
    /\ element.gen < MaxGen
    /\ LET cleanedUp == Cleanup(element)
           g == element.gen + 1
           next == IF change = "passive"
                   THEN cleanedUp
                   ELSE [cleanedUp EXCEPT
                            !.fn = g,
                            !.throttled[g] = IF change = "throttle"
                                             THEN ~element.throttled[element.fn]
                                             ELSE element.throttled[element.fn]]
       IN  element' = RunEffect(next, g, window)
    /\ UNCHANGED <<engineVars, siteVars, provider, lazy, memo>>

(* The component unmounts: the ref is cleared and the cleanup runs *)
Unmount ==
    /\ element.mounted
    /\ element' = [Cleanup(element) EXCEPT !.mounted = FALSE]
    /\ UNCHANGED <<engineVars, siteVars, provider, lazy, memo>>

NextElement ==
    \/ \E rect \in ElementRects : ScrollEvent(rect)
    \/ \E win \in ElementWindows : ResizeEvent(win)
    \/ \E f \in Gens : TimerFires(f)
    \/ \E change \in {"passive", "throttle", "callback"} : Rerender(change)
    \/ Unmount

SpecElement == InitElement /\ [][NextElement]_vars

----------------------------------------------------------------------------
(* SpecLazy: useLazyLoad.  The element's intersection ratio changes; an
   observer that is observing is called back with the new entry.  A render
   follows setHasLoaded(true) or a change of elementRef, and runs the
   effect's cleanup and then the effect. *)

(* Intersection ratios in percent; the observer's threshold is 10 *)
Ratios == {0, 10, 50, 100}

(* How many times the caller passes another elementRef *)
MaxRefs == 3

Entry(ratio) == [isIntersecting |-> ratio >= 10, intersectionRatio |-> ratio]

(* Variant: the effect forgets to return when hasLoaded is set *)
ShouldObserve_Always(l) == l.current

(* if (hasLoaded) return; if (!element) return; *)
ShouldObserve(l) == ~l.hasLoaded /\ l.current

(* return () => observer.disconnect(), then the effect body *)
RunLazyEffect(l) ==
    LET cleaned == [l EXCEPT !.observer = IF @ = "observing" THEN "disconnected" ELSE @]
    IN  IF ShouldObserve(cleaned)
        THEN [cleaned EXCEPT !.observer = "observing", !.made = @ + 1, !.dirty = FALSE]
        ELSE [cleaned EXCEPT !.dirty = FALSE]

InitLazy ==
    /\ EngineIdle
    /\ SitesIdle
    /\ provider = ProviderIdle
    /\ element = ElementIdle
    /\ memo = MemoIdle
    /\ \E current \in BOOLEAN, ratio \in Ratios :
          lazy = RunLazyEffect([mounted |-> TRUE,
                                hasLoaded |-> FALSE,      \* useState(false)
                                dirty |-> FALSE,          \* a render is due
                                ref |-> 1,                \* which elementRef was passed
                                current |-> current,      \* elementRef.current is an element
                                observer |-> "none",      \* the effect's observer
                                made |-> 0,               \* observers created so far
                                ratio |-> ratio,          \* the element's intersection ratio
                                entry |-> Entry(0),       \* the entry of the last callback
                                called |-> FALSE])        \* flips at every callback

(* The intersection changes; the observer's callback runs if it is observing *)
IntersectionChange(ratio) ==
    /\ lazy.mounted
    /\ ratio # lazy.ratio
    /\ lazy' =
          IF lazy.observer # "observing"
          THEN [lazy EXCEPT !.ratio = ratio]
          ELSE IF Entry(ratio).isIntersecting
               THEN [lazy EXCEPT !.ratio = ratio, !.entry = Entry(ratio), !.called = ~@,
                                 !.hasLoaded = TRUE, !.dirty = TRUE,
                                 !.observer = "disconnected"]
               ELSE [lazy EXCEPT !.ratio = ratio, !.entry = Entry(ratio), !.called = ~@]
    /\ UNCHANGED <<engineVars, siteVars, provider, element, memo>>

(* The observer reports the element's state as it is, as it does after observe() *)
FirstCallback ==
    /\ lazy.mounted
    /\ lazy.observer = "observing"
    /\ lazy' =
          IF Entry(lazy.ratio).isIntersecting
          THEN [lazy EXCEPT !.entry = Entry(lazy.ratio), !.called = ~@,
                            !.hasLoaded = TRUE, !.dirty = TRUE,
                            !.observer = "disconnected"]
          ELSE [lazy EXCEPT !.entry = Entry(lazy.ratio), !.called = ~@]
    /\ UNCHANGED <<engineVars, siteVars, provider, element, memo>>

(* React renders after setHasLoaded(true): hasLoaded is a dependency *)
RenderLazy ==
    /\ lazy.mounted
    /\ lazy.dirty
    /\ lazy' = RunLazyEffect(lazy)
    /\ UNCHANGED <<engineVars, siteVars, provider, element, memo>>

(* The caller passes another elementRef: elementRef is a dependency *)
RefChange(current) ==
    /\ lazy.mounted
    /\ lazy.ref < MaxRefs
    /\ lazy' = RunLazyEffect([lazy EXCEPT !.ref = @ + 1, !.current = current])
    /\ UNCHANGED <<engineVars, siteVars, provider, element, memo>>

UnmountLazy ==
    /\ lazy.mounted
    /\ lazy' = [lazy EXCEPT !.mounted = FALSE,
                            !.observer = IF @ = "observing" THEN "disconnected" ELSE @]
    /\ UNCHANGED <<engineVars, siteVars, provider, element, memo>>

NextLazy ==
    \/ \E ratio \in Ratios : IntersectionChange(ratio)
    \/ FirstCallback
    \/ RenderLazy
    \/ \E current \in BOOLEAN : RefChange(current)
    \/ UnmountLazy

SpecLazy == InitLazy /\ [][NextLazy]_vars

----------------------------------------------------------------------------
(* SpecMemo: useSmartPosition as SmartTooltip uses it.  The component
   renders with its props; useMemo recomputes when one of targetRect,
   tooltipWidth, tooltipHeight, gap differs from the render before
   (targetRect by object identity) and returns the stored value otherwise.
   The window is resized between renders. *)

(* targetRect objects: the same rectangle may come as another object *)
MemoProps ==
    [targetRect : SessionRects,
     object : {1, 2},
     tooltipWidth : {Px(w) : w \in TooltipWidths},
     tooltipHeight : {Px(100)},
     gap : {Px(DEFAULT_GAP)}]

(* calculateSmartPosition(targetRect, tooltipWidth, tooltipHeight, gap) *)
Computed(props, win) ==
    calculateSmartPosition(props.targetRect, props.tooltipWidth, props.tooltipHeight,
                           props.gap, [unset |-> TRUE], win)

InitMemo ==
    /\ window \in Windows
    /\ call = NoCall
    /\ pc = "idle"
    /\ candidate = NULL
    /\ handled = NULL
    /\ applied = <<>>
    /\ result = NoResult
    /\ earlier = NoCall
    /\ SitesIdle
    /\ provider = ProviderIdle
    /\ element = ElementIdle
    /\ lazy = LazyIdle
    /\ \E props \in MemoProps :
          memo = [mounted |-> TRUE,
                  deps |-> props,                     \* the dependencies of the last computation
                  value |-> Computed(props, window),  \* what the hook returned last
                  rendered |-> FALSE]                 \* flips at every render

(* The component renders with these props *)
RenderMemo(props) ==
    /\ memo.mounted
    /\ memo' = IF props = memo.deps
               THEN [memo EXCEPT !.rendered = ~@]
               ELSE [memo EXCEPT !.deps = props, !.value = Computed(props, window),
                                 !.rendered = ~@]
    /\ UNCHANGED <<engineVars, siteVars, provider, element, lazy>>

(* The host resizes the window *)
ResizeMemo(win) ==
    /\ memo.mounted
    /\ win # window
    /\ window' = win
    /\ UNCHANGED <<call, pc, candidate, handled, applied, result, earlier,
                   siteVars, hookVars>>

NextMemo ==
    \/ \E props \in MemoProps : RenderMemo(props)
    \/ \E win \in Windows : ResizeMemo(win)

SpecMemo == InitMemo /\ [][NextMemo]_vars

----------------------------------------------------------------------------
(* Vocabulary of the properties: the fit tests and bounds as the
   specification tabulates them, read off the call and the window. *)

Target == call.targetRect
ViewportWidth == window.innerWidth
ViewportHeight == window.innerHeight

(* The lists the call runs with *)
UsedStrategies == StrategiesOf(call.options)
UsedHandlers == HandlersOf(call.options)

FitTest(side) ==
    CASE side = "bottom" -> ViewportHeight - Target.bottom >= call.tooltipHeight + call.gap
      [] side = "top" -> Target.top >= call.tooltipHeight + call.gap
      [] side = "right" -> ViewportWidth - Target.right >= call.tooltipWidth + call.gap
      [] side = "left" -> Target.left >= call.tooltipWidth + call.gap

(* The sides of a preset, in the order the specification lists them *)
PresetOrder ==
    IF UsedStrategies = defaultStrategies THEN <<"bottom", "top", "right", "left">>
    ELSE IF UsedStrategies = topPreferredStrategies THEN <<"top", "bottom", "left", "right">>
    ELSE IF UsedStrategies = horizontalStrategies THEN <<"right", "left", "bottom", "top">>
    ELSE <<>>

IsPreset ==
    UsedStrategies \in {defaultStrategies, topPreferredStrategies, horizontalStrategies}

SomeSideFits == \E i \in 1 .. Len(PresetOrder) : FitTest(PresetOrder[i])

FirstFit ==
    PresetOrder[CHOOSE i \in 1 .. Len(PresetOrder) :
                    /\ FitTest(PresetOrder[i])
                    /\ \A j \in 1 .. (i - 1) : ~FitTest(PresetOrder[j])]

FitsHorizontally == call.tooltipWidth + 2 * Px(VIEWPORT_PADDING) <= ViewportWidth
FitsVertically == call.tooltipHeight + 2 * Px(VIEWPORT_PADDING) <= ViewportHeight

ClampTo(v, lo, hi) == IF v < lo THEN lo ELSE IF v > hi THEN hi ELSE v

Returned == pc = "done"

----------------------------------------------------------------------------
(* C1: with the default strategy list, whenever the bottom fit test passes
   (viewport.height - targetRect.bottom >= tooltipHeight + gap) the returned
   position is bottom. *)
C1_BottomFitsChoosesBottom ==
    (Returned /\ UsedStrategies = defaultStrategies /\ FitTest("bottom"))
        => result.position = "bottom"

(* C1 witness: a default call returned bottom although top, right and left
   would have fitted as well. *)
C1_Witness ==
    /\ Returned
    /\ UsedStrategies = defaultStrategies
    /\ FitTest("bottom") /\ FitTest("top") /\ FitTest("right") /\ FitTest("left")
    /\ result.position = "bottom"

(* C2: for each of the three presets the returned side is the first side in
   preset order whose fit test passes, every side before the returned one
   fails its fit test, and under the default preset with bottom and top
   failing and right fitting the side is right with pre-correction
   x = targetRect.right + gap. *)
C2_FirstFittingSideInPresetOrder ==
    (Returned /\ IsPreset) =>
        /\ SomeSideFits => (result.position = FirstFit /\ candidate.position = FirstFit)
        /\ \A i \in 1 .. Len(PresetOrder) :
              PresetOrder[i] = result.position
                  => \A j \in 1 .. (i - 1) : ~FitTest(PresetOrder[j])
        /\ ( /\ UsedStrategies = defaultStrategies
             /\ ~FitTest("bottom") /\ ~FitTest("top") /\ FitTest("right") )
              => (result.position = "right" /\ candidate.x = Target.right + call.gap)

(* C2 witness: the default preset fell through bottom and top to right
   although left fitted too. *)
C2_Witness ==
    /\ Returned
    /\ UsedStrategies = defaultStrategies
    /\ ~FitTest("bottom") /\ ~FitTest("top") /\ FitTest("right") /\ FitTest("left")
    /\ result.position = "right"
    /\ candidate.x = Target.right + call.gap

(* C3: when every strategy of the list returns no candidate (an empty list
   included) the candidate handed to the handlers is side = bottom,
   x = left + width/2 - tooltipWidth/2, y = bottom + gap; the handlers never
   run without a candidate; and the fallback is corrected like any other
   candidate: returned as is by an empty handler list, clamped into the
   padded viewport by the default list when the tooltip fits it. *)
AllStrategiesFail ==
    \/ UsedStrategies = <<>>
    \/ (IsPreset /\ ~SomeSideFits)

C3_FallbackCandidate ==
    Returned =>
        /\ candidate.position \in Sides
        /\ AllStrategiesFail =>
              /\ candidate = [position |-> "bottom",
                              x |-> Target.left + Half(Target.width) - Half(call.tooltipWidth),
                              y |-> Target.bottom + call.gap]
              /\ result.position = "bottom"
              /\ UsedHandlers = <<>> => (result.x = candidate.x /\ result.y = candidate.y)
              /\ (UsedHandlers = defaultHandlers /\ FitsHorizontally) =>
                    result.x = ClampTo(candidate.x, Px(VIEWPORT_PADDING),
                                       ViewportWidth - call.tooltipWidth - Px(VIEWPORT_PADDING))
              /\ (UsedHandlers = defaultHandlers /\ FitsVertically) =>
                    result.y = ClampTo(candidate.y, Px(VIEWPORT_PADDING),
                                       ViewportHeight - call.tooltipHeight - Px(VIEWPORT_PADDING))

(* C3 witness: all four directional strategies failed in a viewport the
   tooltip fits, and the default handlers moved the fallback on both axes. *)
C3_Witness ==
    /\ Returned
    /\ UsedStrategies = defaultStrategies
    /\ ~SomeSideFits
    /\ UsedHandlers = defaultHandlers
    /\ FitsHorizontally /\ FitsVertically
    /\ candidate.position = "bottom"
    /\ result.x # candidate.x /\ result.y # candidate.y

(* C4: every call terminates (a ready call can always run) and returns one
   record with exactly the fields position, x, y, arrowOffset, position one
   of top, bottom, left, right and the three numbers defined. *)
C4_TotalResult ==
    /\ pc = "ready" => ENABLED Call
    /\ Returned =>
          /\ DOMAIN result = {"position", "x", "y", "arrowOffset"}
          /\ result.position \in Sides
          /\ result.x \in Int /\ result.y \in Int /\ result.arrowOffset \in Int

(* C4 witness: a call whose strategies all failed still returned a complete
   record. *)
C4_Witness ==
    /\ Returned
    /\ IsPreset /\ ~SomeSideFits
    /\ UsedHandlers = fullHandlers
    /\ result.position = "bottom"
    /\ result.x \in Int /\ result.y \in Int /\ result.arrowOffset \in Int

(* C5: right after viewportBoundaryHandler, if tooltipWidth + 2*8 <=
   viewport.width then 8 <= x and x + tooltipWidth <= viewport.width - 8,
   and if tooltipHeight + 2*8 <= viewport.height then 8 <= y and
   y + tooltipHeight <= viewport.height - 8. *)
AfterViewportBoundary == applied # <<>> /\ applied[Len(applied)] = "viewportBoundary"

C5_BoundaryClampInsidePadding ==
    AfterViewportBoundary =>
        /\ FitsHorizontally =>
              /\ handled.x >= Px(VIEWPORT_PADDING)
              /\ handled.x + call.tooltipWidth <= ViewportWidth - Px(VIEWPORT_PADDING)
        /\ FitsVertically =>
              /\ handled.y >= Px(VIEWPORT_PADDING)
              /\ handled.y + call.tooltipHeight <= ViewportHeight - Px(VIEWPORT_PADDING)

(* C5 witness: a candidate beyond the right and bottom bounds of a viewport
   the tooltip fits was pulled back by the handler. *)
C5_Witness ==
    /\ applied = <<"viewportBoundary">>
    /\ FitsHorizontally /\ FitsVertically
    /\ candidate.x + call.tooltipWidth > ViewportWidth - Px(VIEWPORT_PADDING)
    /\ candidate.y + call.tooltipHeight > ViewportHeight - Px(VIEWPORT_PADDING)
    /\ handled.x < candidate.x /\ handled.y < candidate.y

(* C6: with the default handlers the returned box
   [x, x + tooltipWidth] x [y, y + tooltipHeight] lies inside
   [0, viewport.width] x [0, viewport.height], for every target and viewport. *)
C6_NeverOverflowsViewport ==
    (Returned /\ UsedHandlers = defaultHandlers) =>
        /\ 0 <= result.x /\ result.x + call.tooltipWidth <= ViewportWidth
        /\ 0 <= result.y /\ result.y + call.tooltipHeight <= ViewportHeight

(* C7: when the tooltip is wider than viewport.width - 2*8 (taller than
   viewport.height - 2*8) the lower bound wins: after viewportBoundaryHandler
   x >= 8 (y >= 8) for every candidate. *)
C7_LowerBoundWins ==
    applied = <<"viewportBoundary">> =>
        /\ ~FitsHorizontally => handled.x >= Px(VIEWPORT_PADDING)
        /\ ~FitsVertically => handled.y >= Px(VIEWPORT_PADDING)

(* The values an exact clamp of v into [lo, hi] may return: v itself when it
   is inside, else the nearest of the two bounds. *)
ExactClamp(v, lo, hi) ==
    IF lo <= v /\ v <= hi
    THEN {v}
    ELSE {b \in {lo, hi} : \A c \in {lo, hi} : Abs(v - b) <= Abs(v - c)}

XLow == Px(VIEWPORT_PADDING)
XHigh == ViewportWidth - call.tooltipWidth - Px(VIEWPORT_PADDING)
YLow == Px(VIEWPORT_PADDING)
YHigh == ViewportHeight - call.tooltipHeight - Px(VIEWPORT_PADDING)

ScenarioA ==
    /\ call.targetRect = Rect(10, 10, 100, 20)
    /\ call.tooltipWidth = Px(200) /\ call.tooltipHeight = Px(100)
    /\ call.gap = Px(8)
    /\ window = [innerWidth |-> Px(1000), innerHeight |-> Px(800)]
    /\ UsedStrategies = defaultStrategies /\ UsedHandlers = defaultHandlers

(* C8 as stated: viewportBoundaryHandler returns a coordinate inside
   [8, viewport.width - tooltipWidth - 8] (y: [8, viewport.height -
   tooltipHeight - 8]) unchanged and moves one outside it to the nearest
   bound, for every input; and scenario A yields bottom, x = 8, y = 38. *)
C8_ExactClampEverywhere ==
    (Returned /\ UsedHandlers = defaultHandlers) =>
        /\ result.x \in ExactClamp(candidate.x, XLow, XHigh)
        /\ result.y \in ExactClamp(candidate.y, YLow, YHigh)
        /\ ScenarioA => (result.position = "bottom" /\ result.x = Px(8) /\ result.y = Px(38))

(* C8 amended: on each axis whose interval is not empty (tooltipWidth + 16 <=
   viewport.width, resp. tooltipHeight + 16 <= viewport.height) the handler is
   an exact clamp: inside unchanged, outside moved to the nearest bound; and
   scenario A yields bottom, x = 8 (raw -40), y = 38. *)
C8_ExactClampOnNonEmptyInterval ==
    (Returned /\ UsedHandlers = defaultHandlers) =>
        /\ FitsHorizontally => result.x \in ExactClamp(candidate.x, XLow, XHigh)
        /\ FitsVertically => result.y \in ExactClamp(candidate.y, YLow, YHigh)
        /\ ScenarioA =>
              /\ candidate = [position |-> "bottom", x |-> Px(-40), y |-> Px(38)]
              /\ result.position = "bottom" /\ result.x = Px(8) /\ result.y = Px(38)

(* C8 witness: scenario A returned, its raw x = -40 moved to 8 and its y = 38
   left alone. *)
C8_Witness ==
    /\ Returned /\ ScenarioA
    /\ candidate.x = Px(-40) /\ result.x = Px(8)
    /\ candidate.y = Px(38) /\ result.y = Px(38)

(* C9 as stated: |arrowOffset| <= tooltipWidth/2 - 20 for top/bottom and
   |arrowOffset| <= tooltipHeight/2 - 20 for left/right, for all tooltip
   sizes. *)
C9_ArrowOffsetBoundAllSizes ==
    Returned =>
        /\ result.position \in {"top", "bottom"}
              => Abs(result.arrowOffset) <= Half(call.tooltipWidth) - Px(ARROW_PADDING)
        /\ result.position \in {"left", "right"}
              => Abs(result.arrowOffset) <= Half(call.tooltipHeight) - Px(ARROW_PADDING)

(* The bound C9 amended states for a tooltip of the given extent *)
ArrowBoundHolds(extent) ==
    IF extent >= 2 * Px(ARROW_PADDING)
    THEN Abs(result.arrowOffset) <= Half(extent) - Px(ARROW_PADDING)
    ELSE result.arrowOffset = Px(ARROW_PADDING) - Half(extent)

(* C9 amended: |arrowOffset| <= tooltipWidth/2 - 20 for top/bottom when
   tooltipWidth >= 40 and |arrowOffset| <= tooltipHeight/2 - 20 for
   left/right when tooltipHeight >= 40; for a smaller tooltip arrowOffset is
   exactly 20 - tooltipWidth/2 (resp. 20 - tooltipHeight/2), which is
   positive and outside that bound. *)
C9_ArrowOffsetBound ==
    Returned =>
        /\ result.position \in {"top", "bottom"} => ArrowBoundHolds(call.tooltipWidth)
        /\ result.position \in {"left", "right"} => ArrowBoundHolds(call.tooltipHeight)

(* C9 witness: a bottom placement of a 200 wide tooltip whose unclamped
   offset exceeded the bound and was cut to it. *)
C9_Witness ==
    /\ Returned
    /\ result.position = "bottom"
    /\ call.tooltipWidth = Px(200)
    /\ Abs(Target.left + Half(Target.width) - result.x - Half(call.tooltipWidth))
          > Half(call.tooltipWidth) - Px(ARROW_PADDING)
    /\ Abs(result.arrowOffset) = Half(call.tooltipWidth) - Px(ARROW_PADDING)

(* The unclamped offsets, from the corrected position *)
HorizontalOffset == Target.left + Half(Target.width) - result.x - Half(call.tooltipWidth)
VerticalOffset == Target.top + Half(Target.height) - result.y - Half(call.tooltipHeight)

Unmoved == result.x = candidate.x /\ result.y = candidate.y

(* C10: for a top/bottom result arrowOffset = (left + width/2) - x -
   tooltipWidth/2 from the corrected x whenever that value lies in
   [-tooltipWidth/2 + 20, tooltipWidth/2 - 20] (left/right: top, height, y,
   tooltipHeight); and when a directional strategy's candidate is not moved
   by any handler, arrowOffset = 0. *)
C10_ArrowPointsAtTargetCentre ==
    Returned =>
        /\ ( /\ result.position \in {"top", "bottom"}
             /\ -Half(call.tooltipWidth) + Px(ARROW_PADDING) <= HorizontalOffset
             /\ HorizontalOffset <= Half(call.tooltipWidth) - Px(ARROW_PADDING) )
              => result.arrowOffset = HorizontalOffset
        /\ ( /\ result.position \in {"left", "right"}
             /\ -Half(call.tooltipHeight) + Px(ARROW_PADDING) <= VerticalOffset
             /\ VerticalOffset <= Half(call.tooltipHeight) - Px(ARROW_PADDING) )
              => result.arrowOffset = VerticalOffset
        /\ (IsPreset /\ SomeSideFits /\ Unmoved) => result.arrowOffset = 0

----------------------------------------------------------------------------
(* A step of SpecHandler that applies the named handler *)
Applies(handler) == applied' = Append(applied, handler)

(* C11: no handler changes the side: every handler step leaves position as
   it was and changes only x and/or y, and a safeAreaHandler step also
   leaves x unchanged; so after any sequence of handlers (the default,
   mobile and full presets included) the position is the candidate's. *)
C11_HandlersKeepSide ==
    [][/\ (\E handler \in Handlers : Applies(handler)) =>
              /\ handled'.position = handled.position
              /\ handled' = [handled EXCEPT !.x = handled'.x, !.y = handled'.y]
              /\ handled'.position = candidate.position
       /\ Applies("safeArea") => handled'.x = handled.x]_vars

(* C11 witness: the mobile preset moved a candidate on both axes and the
   side stayed the candidate's. *)
C11_Witness ==
    /\ applied = mobileHandlers
    /\ handled.x # candidate.x /\ handled.y # candidate.y
    /\ handled.position = candidate.position
----------------------------------------------------------------------------
UnknownPresetRequested ==
    \/ call.requested.strategies \notin {"default", "topPreferred", "horizontal"}
    \/ call.requested.handlers \notin {"default", "mobile", "full"}

(* C12: a call that selects a strategy or handler preset by a name that is
   not a recognized preset never returns a result, and never runs with the
   default list in place of the unknown one. *)
C12_UnknownPresetFails == UnknownPresetRequested => ~Returned
----------------------------------------------------------------------------
(* The call that just returned has the arguments and the window of the
   earlier call on record *)
SameCallAgain ==
    /\ Returned
    /\ earlier # NoCall
    /\ earlier.call = call
    /\ earlier.window = window

(* C13: two calls with identical arguments under the same viewport return
   the same position, x, y and arrowOffset, whatever calls and resizes
   came before or between them. *)
C13_SameCallSameResult == SameCallAgain => result = earlier.result

(* C13 witness: a call returned a second time, with the arguments and the
   viewport of the call on record. *)
C13_Witness ==
    /\ SameCallAgain
    /\ result.position \in Sides
    /\ result = earlier.result
----------------------------------------------------------------------------
AfterSafeArea == applied # <<>> /\ applied[Len(applied)] = "safeArea"

SafeYLow == Px(safeTop)
SafeYHigh == ViewportHeight - call.tooltipHeight - Px(safeBottom)

SafeAreaFits == call.tooltipHeight + Px(safeTop) + Px(safeBottom) <= ViewportHeight

(* C14 as stated: right after safeAreaHandler, for every candidate and
   request, 50 <= y <= viewport.height - tooltipHeight - 34. *)
C14_SafeAreaBoundsEverywhere ==
    AfterSafeArea => handled.y >= SafeYLow /\ handled.y <= SafeYHigh

(* C14: right after safeAreaHandler, whenever the interval exists
   (tooltipHeight + 50 + 34 <= viewport.height),
   50 <= y <= viewport.height - tooltipHeight - 34. *)
C14_SafeAreaBounds ==
    AfterSafeArea /\ SafeAreaFits => handled.y >= SafeYLow /\ handled.y <= SafeYHigh

(* C14 witness: safeAreaHandler alone lifted a candidate lying below the
   bottom bound onto that bound. *)
C14_Witness ==
    /\ applied = <<"safeArea">>
    /\ SafeAreaFits
    /\ candidate.y > SafeYHigh
    /\ handled.y = SafeYHigh
----------------------------------------------------------------------------
(* The call ran the mobile or the full handler preset *)
MobileOrFull ==
    UsedHandlers \in {<<"viewportBoundary", "safeArea">>,
                      <<"viewportBoundary", "scrollContainer", "safeArea">>}

(* C15: in the mobile and full presets safe-area runs after
   viewport-boundary and neither undoes the other: whenever
   tooltipHeight + 50 + 34 <= viewport.height and
   tooltipWidth + 16 <= viewport.width, the returned result satisfies
   50 <= y <= viewport.height - tooltipHeight - 34 and 8 <= x,
   x + tooltipWidth <= viewport.width - 8, 8 <= y,
   y + tooltipHeight <= viewport.height - 8. *)
C15_SafeAreaAndBoundaryBothHold ==
    Returned /\ MobileOrFull /\ SafeAreaFits /\ FitsHorizontally =>
        /\ applied[Len(applied)] = "safeArea" /\ applied[1] = "viewportBoundary"
        /\ result.y >= Px(50) /\ result.y <= ViewportHeight - call.tooltipHeight - Px(34)
        /\ result.x >= Px(8) /\ result.x + call.tooltipWidth <= ViewportWidth - Px(8)
        /\ result.y >= Px(8) /\ result.y + call.tooltipHeight <= ViewportHeight - Px(8)

(* C15 witness: under the mobile preset a candidate reaching below the
   viewport was returned on the bottom bound of the safe area. *)
C15_Witness ==
    /\ Returned /\ UsedHandlers = <<"viewportBoundary", "safeArea">>
    /\ SafeAreaFits /\ FitsHorizontally
    /\ candidate.y + call.tooltipHeight > ViewportHeight - Px(8)
    /\ result.y = SafeYHigh
----------------------------------------------------------------------------
(* What the same call returns when it runs the mobile preset instead *)
MobileResult ==
    calculateSmartPosition(call.targetRect, call.tooltipWidth, call.tooltipHeight,
                           call.gap,
                           [strategies |-> UsedStrategies,
                            handlers |-> <<"viewportBoundary", "safeArea">>],
                           window)

(* C16: scrollContainerHandler returns its input unchanged, so a call that
   runs the full preset returns the position, x, y and arrowOffset that
   the same call returns with the mobile preset. *)
C16_FullEqualsMobile ==
    Returned /\ UsedHandlers = <<"viewportBoundary", "scrollContainer", "safeArea">> =>
        result = MobileResult

(* C16 witness: a call under the full preset whose candidate both
   handlers around scrollContainerHandler moved. *)
C16_Witness ==
    /\ Returned
    /\ UsedHandlers = <<"viewportBoundary", "scrollContainer", "safeArea">>
    /\ result.x # candidate.x /\ result.y # candidate.y
    /\ result = MobileResult
----------------------------------------------------------------------------
(* The call's strategy list is the one directional strategy of this kind *)
SoleStrategy(kind) == UsedStrategies = <<[kind |-> kind]>>

(* The candidate that stands for "no strategy fitted" (C3) *)
IsFallback ==
    /\ candidate.position = "bottom"
    /\ candidate.y = Target.bottom + call.gap

CentredX == Target.left + Half(Target.width) - Half(call.tooltipWidth)
CentredY == Target.top + Half(Target.height) - Half(call.tooltipHeight)

(* C17: a directional strategy returns a candidate exactly when its fit
   test passes, equality included, and with the tabulated coordinates:
   top fits iff top >= tooltipHeight + gap, x centred on the target,
   y = top - tooltipHeight - gap; right fits iff
   viewport.width - right >= tooltipWidth + gap, x = right + gap, y centred
   on the target; left fits iff left >= tooltipWidth + gap,
   x = left - tooltipWidth - gap, y centred on the target. *)
C17_DirectionalStrategies ==
    Returned =>
        /\ SoleStrategy("topFirst") =>
              IF Target.top >= call.tooltipHeight + call.gap
              THEN candidate = [position |-> "top", x |-> CentredX,
                                y |-> Target.top - call.tooltipHeight - call.gap]
              ELSE IsFallback
        /\ SoleStrategy("rightFirst") =>
              IF ViewportWidth - Target.right >= call.tooltipWidth + call.gap
              THEN candidate = [position |-> "right", x |-> Target.right + call.gap,
                                y |-> CentredY]
              ELSE IsFallback
        /\ SoleStrategy("leftFirst") =>
              IF Target.left >= call.tooltipWidth + call.gap
              THEN candidate = [position |-> "left",
                                x |-> Target.left - call.tooltipWidth - call.gap,
                                y |-> CentredY]
              ELSE IsFallback

(* C17 witness: the right strategy alone, with exactly
   tooltipWidth + gap of room on the right, placed the tooltip right. *)
C17_Witness ==
    /\ Returned /\ SoleStrategy("rightFirst")
    /\ ViewportWidth - Target.right = call.tooltipWidth + call.gap
    /\ candidate.position = "right"
----------------------------------------------------------------------------
(* The first strategy of the call's list *)
Lead == UsedStrategies[1]

(* C18: followMouse(mouseX, mouseY) always returns bottom with
   x = mouseX + gap, y = mouseY + gap, and fixed(fixedX, fixedY, side)
   always returns exactly that side, fixedX and fixedY; so a list that
   starts with one of them takes its candidate from it, whatever follows
   in the list, and never from the fallback. *)
C18_UnconditionalStrategies ==
    Returned /\ UsedStrategies # <<>> =>
        /\ Lead.kind = "followMouse" =>
              candidate = [position |-> "bottom",
                           x |-> Lead.mouseX + call.gap,
                           y |-> Lead.mouseY + call.gap]
        /\ Lead.kind = "fixed" =>
              candidate = [position |-> Lead.fixedPosition,
                           x |-> Lead.fixedX,
                           y |-> Lead.fixedY]

(* C18 witness: a followMouse strategy ahead of the default list gave the
   candidate although the tooltip fits above the target and nowhere near
   the pointer. *)
C18_Witness ==
    /\ Returned
    /\ Len(UsedStrategies) > 1 /\ Lead.kind = "followMouse"
    /\ FitTest("top") /\ ~FitTest("bottom")
    /\ Lead.mouseX + call.gap + call.tooltipWidth > ViewportWidth
    /\ candidate.x = Lead.mouseX + call.gap /\ candidate.position = "bottom"
----------------------------------------------------------------------------
(* The side the preset order picks in the window as it is now *)
SideNow == IF SomeSideFits THEN FirstFit ELSE "bottom"

(* C19: every call computes from the viewport the host reports at that
   call: in any sequence of resizes and calls, the result a call returns is
   the result for the window as it is at that call (its side is the first
   fitting side for that window, its corrected coordinates lie inside that
   window's padding), never one for a window seen by an earlier call. *)
C19_ViewportReadAtEachCall ==
    [][pc = "ready" /\ pc' = "done" =>
          /\ result' = calculateSmartPosition(call.targetRect, call.tooltipWidth,
                                              call.tooltipHeight, call.gap,
                                              call.options, window)
          /\ IsPreset => result'.position = SideNow
          /\ FitsHorizontally =>
                result'.x >= XLow /\ result'.x <= XHigh
          /\ FitsVertically =>
                result'.y >= YLow /\ result'.y <= YHigh]_vars

(* C19 witness: a call repeated after a resize returned another side than
   the call on record, which ran in the earlier window. *)
C19_Witness ==
    /\ Returned
    /\ earlier # NoCall
    /\ earlier.call = call
    /\ earlier.window # window
    /\ result.position # earlier.result.position
    /\ result.position = SideNow
----------------------------------------------------------------------------
(* What the invocation of a call site returns when nothing else runs *)
RunAlone(s) ==
    LET c == site[s].call
    IN  calculateSmartPosition(c.targetRect, c.tooltipWidth, c.tooltipHeight, c.gap,
                               [strategies |-> StrategyPresets[c.options.strategies],
                                handlers |-> HandlerPresets[c.options.handlers]],
                               window)

Running(s) == site[s].pc \notin {"idle", "done"}

(* C20: calls from several call sites do not interfere: in every
   interleaving of their steps each call returns what it returns when run
   alone, and no step changes the arguments or input of a call in
   progress, the shared preset arrays, or the result already returned to
   another call site. *)
C20_CallsDoNotInterfere ==
    /\ [](\A s \in Sites : site[s].pc = "done" => ret[s] = RunAlone(s))
    /\ [][/\ presets' = presets
          /\ \A s \in Sites :
                /\ Running(s) => /\ site'[s].call = site[s].call
                                 /\ site'[s].input = site[s].input
                /\ site'[s] = site[s] => ret'[s] = ret[s]]_vars

(* C20 witness: one hook's call has returned its result while the other
   hook's call is inside its handler loop, holding a different candidate. *)
C20_Witness ==
    /\ site["useAdvancedSmartPosition"].pc = "done"
    /\ ret["useAdvancedSmartPosition"] = RunAlone("useAdvancedSmartPosition")
    /\ ret["useAdvancedSmartPosition"].position \in {"left", "right"}
    /\ site["useSmartPosition"].pc = "handlers"
    /\ site["useSmartPosition"].idx = 2
    /\ slots["useSmartPosition"].position \in {"top", "bottom"}
----------------------------------------------------------------------------
(* The room around the target on each side, as TooltipContent displays it *)
Space(side) ==
    CASE side = "top" -> Target.top
      [] side = "bottom" -> ViewportHeight - Target.bottom
      [] side = "left" -> Target.left
      [] side = "right" -> ViewportWidth - Target.right

(* C21: with the default strategies the returned side is one of the sides
   with the most available space: no other side of the target has more
   room than the side the tooltip is shown on. *)
C21_SideWithMostSpace ==
    Returned /\ UsedStrategies = <<BottomFirst, TopFirst, RightFirst, LeftFirst>> =>
        \A side \in Sides : Space(side) <= Space(result.position)
----------------------------------------------------------------------------
(* C22: the per-second statistics lose and double-count nothing: whenever
   metrics for a second are published, rectCallsPerSecond,
   ioCallbacksPerSecond and scrollEventsPerSecond are the numbers of
   increments made in that second, whether React ran the updater at the
   tick or later. *)
C22_PublishedEqualsCounted ==
    provider.published =>
        /\ provider.metrics.rectCallsPerSecond = provider.counted.rectCalls
        /\ provider.metrics.ioCallbacksPerSecond = provider.counted.ioCallbacks
        /\ provider.metrics.scrollEventsPerSecond = provider.counted.scrollEvents
----------------------------------------------------------------------------
(* This step called setPosition *)
PositionSet == element'.flip # element.flip

(* C23: after the effect's cleanup has run, the cleaned-up generation
   produces no position update: none of its listeners is registered any
   more, no throttled invocation it left pending survives, and no
   setPosition made on its behalf happens afterwards, whatever scroll and
   resize events come before and after the cleanup. *)
C23_NoUpdateAfterCleanup ==
    /\ [](\A g \in element.cleaned :
             /\ \A r \in element.scroll \cup element.resize : r.gen # g
             /\ \A f \in Gens : element.timers[f].pending => element.timers[f].by # g)
    /\ [][PositionSet => element'.updatedBy \notin element'.cleaned]_vars

(* C23 witness: a cleanup cancelled a pending throttled invocation, the
   element is still mounted, and the position held comes from the
   generation now running. *)
C23_Witness ==
    /\ element.mounted
    /\ element.dropped
    /\ element.cleaned # {}
    /\ element.position # NoPosition
    /\ element.updatedBy = element.gen
    /\ element.updatedBy \notin element.cleaned

(* C25: for every measured rectangle and viewport the position set has
   isInViewport true exactly when top < innerHeight, bottom > 0,
   left < innerWidth and right > 0, isFullyVisible true exactly when
   top >= 0, bottom <= innerHeight, left >= 0 and right <= innerWidth, and
   the status is fully visible if isFullyVisible, else partially visible
   if isInViewport, else scrolled-above if top < 0, else below if
   top > innerHeight, else completely invisible. *)
C25_VisibilityAndStatus ==
    [][PositionSet =>
          LET p == element'.position
              r == element'.rect
              inView == /\ r.top < window'.innerHeight /\ r.bottom > 0
                        /\ r.left < window'.innerWidth /\ r.right > 0
              full == /\ r.top >= 0 /\ r.bottom <= window'.innerHeight
                      /\ r.left >= 0 /\ r.right <= window'.innerWidth
          IN  /\ p.rect = r
              /\ p.isInViewport = inView
              /\ p.isFullyVisible = full
              /\ full => p.status = "fullyVisible"
              /\ ~full /\ inView => p.status = "partiallyVisible"
              /\ ~full /\ ~inView /\ r.top < 0 => p.status = "scrolledAbove"
              /\ ~full /\ ~inView /\ r.top >= 0 /\ r.top > window'.innerHeight =>
                    p.status = "below"
              /\ ~full /\ ~inView /\ r.top >= 0 /\ r.top <= window'.innerHeight =>
                    p.status = "invisible"]_vars

(* C25 witness: after a change of settings, an element whose top is exactly
   at the bottom edge of the viewport was measured as not in the viewport
   and completely invisible. *)
C25_Witness ==
    /\ element.position # NoPosition
    /\ element.updatedBy > 1
    /\ element.position.rect.top = window.innerHeight
    /\ element.position.rect = element.rect
    /\ ~element.position.isInViewport
    /\ element.position.status = "invisible"
----------------------------------------------------------------------------
(* This step ran the observer's callback *)
CalledBack == lazy'.called # lazy.called

(* C24: useLazyLoad fires once and stops observing: hasLoaded becomes true
   exactly at an observer callback whose entry is intersecting and never
   returns to false; from then on the observer is disconnected and no new
   one is created, so later intersection changes change nothing of the
   hook; a callback whose entry is not intersecting leaves hasLoaded false
   and the observer attached. *)
C24_LoadsOnceAndStopsObserving ==
    /\ [](lazy.mounted /\ lazy.hasLoaded => lazy.observer # "observing")
    /\ [][/\ lazy.hasLoaded =>
                /\ lazy'.hasLoaded
                /\ lazy'.made = lazy.made
                /\ ~CalledBack
          /\ ~lazy.hasLoaded /\ lazy'.hasLoaded =>
                CalledBack /\ lazy'.entry.isIntersecting
          /\ CalledBack /\ lazy'.entry.isIntersecting => lazy'.hasLoaded
          /\ CalledBack /\ ~lazy'.entry.isIntersecting =>
                ~lazy'.hasLoaded /\ lazy'.observer = "observing"]_vars

(* C24 witness: the hook has loaded and rendered, the element has left the
   viewport again, and the one observer ever made is disconnected. *)
C24_Witness ==
    /\ lazy.mounted /\ lazy.hasLoaded /\ ~lazy.dirty
    /\ lazy.made = 1
    /\ lazy.observer = "disconnected"
    /\ lazy.entry.isIntersecting /\ lazy.ratio = 0
----------------------------------------------------------------------------
(* C26: the position useSmartPosition returns is always current: at every
   render, after any resizes and target updates, the value returned is
   calculateSmartPosition(targetRect, width, height, gap) for the window
   as it is at that render, also when only the window changed. *)
C26_HookValueIsCurrent ==
    [][memo'.rendered # memo.rendered =>
          memo'.value = calculateSmartPosition(memo'.deps.targetRect,
                                               memo'.deps.tooltipWidth,
                                               memo'.deps.tooltipHeight,
                                               memo'.deps.gap,
                                               [strategies |-> defaultStrategies,
                                                handlers |-> defaultHandlers],
                                               window')]_vars
----------------------------------------------------------------------------
(* The returned box lies wholly on this side of the target *)
OnSide(side) ==
    CASE side = "bottom" -> result.y >= Target.bottom
      [] side = "top" -> result.y + call.tooltipHeight <= Target.top
      [] side = "right" -> result.x >= Target.right
      [] side = "left" -> result.x + call.tooltipWidth <= Target.left

StrategyFor(side) ==
    CASE side = "bottom" -> "bottomFirst"
      [] side = "top" -> "topFirst"
      [] side = "right" -> "rightFirst"
      [] side = "left" -> "leftFirst"

(* C27: with gap >= 8 the corrected tooltip never covers its target:
   whenever the side comes from a directional strategy whose fit test
   passed and the default handlers are applied, the returned box stays on
   that side of the target (bottom: y >= targetRect.bottom; top:
   y + tooltipHeight <= targetRect.top; right: x >= targetRect.right; left:
   x + tooltipWidth <= targetRect.left). *)
C27_TooltipStaysOffTarget ==
    Returned /\ UsedHandlers = <<"viewportBoundary">> /\ call.gap >= Px(8) =>
        \A side \in Sides :
            SoleStrategy(StrategyFor(side)) /\ FitTest(side) =>
                result.position = side /\ OnSide(side)

(* C27 witness: a tooltip placed right with exactly tooltipWidth + gap of
   room was pulled back by the boundary handler until it touches the
   target's right edge. *)
C27_Witness ==
    /\ Returned /\ UsedHandlers = <<"viewportBoundary">> /\ call.gap >= Px(8)
    /\ SoleStrategy("rightFirst") /\ FitTest("right")
    /\ result.x < candidate.x
    /\ result.x = Target.right
----------------------------------------------------------------------------
(* C28: viewportBoundaryHandler is idempotent: for every candidate and
   request, applying it a second time leaves the x and y of the first
   application unchanged (a handler list holding it twice gives the result
   of the default list). *)
C28_ViewportBoundaryIdempotent ==
    [][(applied = <<"viewportBoundary">> /\
        applied' = <<"viewportBoundary", "viewportBoundary">>) =>
            (handled'.x = handled.x /\ handled'.y = handled.y)]_vars

====
